---- MODULE Spec2Model ----
(***************************************************************************)
(* A model of the request handlers of src/app.py (a Flask + SQLAlchemy     *)
(* classroom diary): the tables are sequences of rows (a row's id is its   *)
(* index, no handler deletes a row), a request is a record that walks      *)
(* through the handler's queries and commits, and the clock is the value   *)
(* datetime.utcnow() returns.                                              *)
(***************************************************************************)
EXTENDS Integers, Sequences, FiniteSets, TLC

VARIABLES clock, users, programs, enrollments, tasks, submissions, grades,
          feedbacks, notifications, req, resp

db == <<users, programs, enrollments, tasks, submissions, grades, feedbacks,
        notifications>>
vars == <<clock, users, programs, enrollments, tasks, submissions, grades,
          feedbacks, notifications, req, resp>>

(* ------------------------------ bounds -------------------------------- *)
MaxTime == 2
MaxTasks == 1
MaxNotifs == 3
MaxEnrollments == 3
MaxUsers == 6

(* ------------------------- values and inputs -------------------------- *)
\* Python's None and a present value, as sequences of length 0 and 1.
None == <<>>
Some(v) == <<v>>
IsSome(o) == o # <<>>
Val(o) == o[1]

\* One request at a time, and two requests in flight at once.
Workers == {1}
Clients == {1, 2}
Anonymous == 0
Principals == 0 .. 4
ProgramIds == 1 .. 3
TaskIds == 1 .. (MaxTasks + 1)
Methods == {"GET", "POST"}
Titles == {"", "hw"}
DueStrings == {"", "tomorrow", "0001-01-01"}
IdStrings == {"", "1", "3", "4", "9"}

Idle == [pc |-> "idle"]
NoResponse == [outcome |-> "none", body |-> <<>>]

\* The rows db.create_all() plus four registrations and two create_program
\* calls leave: two organizers, each owning one program, two participants.
SeedUsers ==
  << [username |-> "org1", email |-> "org1@x", role |-> "organizer"],
     [username |-> "org2", email |-> "org2@x", role |-> "organizer"],
     [username |-> "part1", email |-> "part1@x", role |-> "participant"],
     [username |-> "part2", email |-> "part2@x", role |-> "participant"] >>
SeedPrograms == << [organizer_id |-> 1], [organizer_id |-> 2] >>

\* All the orders in which a query without ORDER BY may return the rows S.
Orders(S) ==
  { s \in [1 .. Cardinality(S) -> S] :
      \A i, j \in 1 .. Cardinality(S) : i # j => s[i] # s[j] }

\* Query.filter_by(**by): the ids of the rows whose columns equal those of by.
FilterBy(table, by) ==
  { i \in DOMAIN table : \A c \in DOMAIN by : table[i][c] = by[c] }

\* int('<digits>') of the request's id strings; the column comparison coerces.
IdOf(s) ==
  CASE s = "1" -> 1
    [] s = "3" -> 3
    [] s = "4" -> 4
    [] s = "9" -> 9

\* datetime.strptime(s, '%Y-%m-%d') if s else None; ValueError gives None.
ParseDueDate(s) ==
  IF s = "" THEN None
  ELSE IF s = "0001-01-01" THEN Some(1)
  ELSE None

LoggedIn(u) == u # Anonymous /\ u \in DOMAIN users
Role(u) == users[u].role

\* The handler returns: the response is recorded and the worker is free.
Respond(w, outcome, body) ==
  /\ resp' = [resp EXCEPT ![w] = [outcome |-> outcome, body |-> body]]
  /\ req' = [req EXCEPT ![w] = Idle]

\* A handler that answers at once, having changed nothing.
Answer(w, outcome) ==
  /\ Respond(w, outcome, <<>>)
  /\ UNCHANGED <<clock, db>>

\* The handler has passed its checks and is about to write: the request is in
\* flight and has no response yet.
Start(w, r) ==
  /\ req' = [req EXCEPT ![w] = r]
  /\ resp' = [resp EXCEPT ![w] = NoResponse]

\* The handler moves on to its next statement.
Goto(w, r) ==
  /\ req' = [req EXCEPT ![w] = r]
  /\ UNCHANGED resp

(* --------------------------- notifications ---------------------------- *)
\* The row with is_read set at creation.
NewNotification_read(user_id, message, notification_type, reference_id) ==
  [user_id |-> user_id, message |-> message,
   notification_type |-> notification_type, reference_id |-> reference_id,
   is_read |-> TRUE, created_at |-> clock]

NewNotification(user_id, message, notification_type, reference_id) ==
  [user_id |-> user_id, message |-> message,
   notification_type |-> notification_type, reference_id |-> reference_id,
   is_read |-> FALSE, created_at |-> clock]

\* create_notification: add the row and commit.
create_notification(user_id, message, notification_type, reference_id) ==
  notifications' =
    Append(notifications,
           NewNotification(user_id, message, notification_type, reference_id))

Room(n) == Len(notifications) + n <= MaxNotifs

(* ------------------------- enroll_participant ------------------------- *)
\* The lookup of lines 422-425 with its result dropped: never a row found.
EnrollmentsOf_none(participant_id, program_id) == {}

EnrollmentsOf(participant_id, program_id) ==
  FilterBy(enrollments, [participant_id |-> participant_id, program_id |-> program_id])

\* Every enrollment, whatever its program.
ProgramEnrollments_all(program_id) == DOMAIN enrollments

\* Enrollment.query.filter_by(program_id=program_id).all()
ProgramEnrollments(program_id) ==
  FilterBy(enrollments, [program_id |-> program_id])

OwnsProgram(u, program_id) ==
  Role(u) = "organizer" /\ programs[program_id].organizer_id = u

enroll_participant(w, u, program_id, participant_id) ==
  /\ req[w] = Idle
  /\ IF ~LoggedIn(u) THEN Answer(w, "redirect_login")
     ELSE IF program_id \notin DOMAIN programs THEN Answer(w, "not_found")
     ELSE IF ~OwnsProgram(u, program_id) THEN Answer(w, "redirect_home")
     ELSE IF participant_id = "" THEN Answer(w, "redirect_program")
     ELSE IF FilterBy(users, [role |-> "participant"])
               \cap {IdOf(participant_id)} = {}
       THEN Answer(w, "participant_not_found")
     ELSE IF EnrollmentsOf(IdOf(participant_id), program_id) # {}
       THEN Answer(w, "already_enrolled")
     ELSE /\ Len(enrollments) < MaxEnrollments
          /\ Start(w, [pc |-> "enroll_commit", user |-> u,
                      program_id |-> program_id,
                      participant_id |-> IdOf(participant_id)])
          /\ UNCHANGED <<clock, db>>

enroll_participant_commit(w) ==
  /\ req[w].pc = "enroll_commit"
  /\ enrollments' =
       Append(enrollments, [participant_id |-> req[w].participant_id,
                            program_id |-> req[w].program_id])
  /\ Respond(w, "enrolled", <<>>)
  /\ UNCHANGED <<clock, users, programs, tasks, submissions, grades,
                 feedbacks, notifications>>

(* ----------------------------- create_task ---------------------------- *)
create_task(w, u, program_id, method, title, due_date) ==
  /\ req[w] = Idle
  /\ IF ~LoggedIn(u) THEN Answer(w, "redirect_login")
     ELSE IF program_id \notin DOMAIN programs THEN Answer(w, "not_found")
     ELSE IF ~OwnsProgram(u, program_id) THEN Answer(w, "redirect_home")
     ELSE IF ~(method = "POST" /\ title # "") THEN Answer(w, "create_task_page")
     ELSE /\ Len(tasks) < MaxTasks
          /\ Room(Cardinality(ProgramEnrollments(program_id)))
          /\ tasks' = Append(tasks, [title |-> title,
                                     due_date |-> ParseDueDate(due_date),
                                     program_id |-> program_id,
                                     organizer_id |-> u])
          /\ Start(w, [pc |-> "create_task_query", user |-> u,
                      program_id |-> program_id, task_id |-> Len(tasks) + 1,
                      title |-> title])
          /\ UNCHANGED <<clock, users, programs, enrollments, submissions,
                         grades, feedbacks, notifications>>

\* Lines 337-347: the enrollments of the program, then one notification (and
\* one commit) per enrollment; the redirect follows the last one.
create_task_query(w) ==
  /\ req[w].pc = "create_task_query"
  /\ \E order \in Orders(ProgramEnrollments(req[w].program_id)) :
       IF order = <<>>
         THEN Respond(w, "task_created", <<>>)
         ELSE Goto(w, [req[w] EXCEPT !.pc = "create_task_notify"]
                        @@ [pending |-> [i \in DOMAIN order |->
                                           enrollments[order[i]].participant_id]])
  /\ UNCHANGED <<clock, db>>

create_task_notify(w) ==
  /\ req[w].pc = "create_task_notify"
  /\ create_notification(Head(req[w].pending), <<"new task", req[w].title>>,
                         "task", Some(req[w].task_id))
  /\ IF Tail(req[w].pending) = <<>>
       THEN Respond(w, "task_created", <<>>)
       ELSE Goto(w, [req[w] EXCEPT !.pending = Tail(@)])
  /\ UNCHANGED <<clock, users, programs, enrollments, tasks, submissions,
                 grades, feedbacks>>

(* ----------------------------- submit_task ---------------------------- *)
Texts == {"", "a"}
\* request.files: no submission_file field, one with an empty filename, one
\* with a name.
Files == {None, Some(""), Some("../r.txt")}

\* werkzeug's secure_filename on the names the model uploads.
secure_filename(name) == IF name = "../r.txt" THEN "r.txt" ELSE name

\* Lines 526-534: the stored path, its prefix the clock at the upload.
UploadPath(file) ==
  IF file # None /\ Val(file) # ""
    THEN Some(<<clock, secure_filename(Val(file))>>)
    ELSE None

\* The lookup without its participant_id: any submission of the task.
SubmissionsOf_task(task_id, participant_id) ==
  FilterBy(submissions, [task_id |-> task_id])

SubmissionsOf(task_id, participant_id) ==
  FilterBy(submissions, [task_id |-> task_id, participant_id |-> participant_id])

\* Query.first(): one of the rows, or None.
First(ids) == IF ids = {} THEN {None} ELSE { Some(i) : i \in ids }

\* Lines 538-541.
IsLate(due_date, now) == due_date # None /\ now > Val(due_date)

\* Lines 505-541: the checks, the row already there, the upload and the
\* lateness check. The upload's file name and the lateness check read the
\* clock in the same step; the write below reads it again.
submit_task(w, u, task_id, text, file) ==
  /\ req[w] = Idle
  /\ IF ~LoggedIn(u) THEN Answer(w, "redirect_login")
     ELSE IF task_id \notin DOMAIN tasks THEN Answer(w, "not_found")
     ELSE IF Role(u) # "participant" THEN Answer(w, "redirect_home")
     ELSE IF EnrollmentsOf(u, tasks[task_id].program_id) = {}
       THEN Answer(w, "redirect_home")
     ELSE /\ Room(1)
          /\ \E existing \in First(SubmissionsOf(task_id, u)) :
               Start(w, [pc |-> "submit_write", user |-> u,
                         task_id |-> task_id,
                         existing_submission |-> existing,
                         file_path |-> UploadPath(file),
                         submission_text |-> text,
                         is_late |-> IsLate(tasks[task_id].due_date, clock)])
          /\ UNCHANGED <<clock, db>>

\* The overwrite taking the new file_path as it is, None included.
OrElse_new(a, b) == a

\* file_path or existing_submission.file_path
OrElse(a, b) == IF a # None THEN a ELSE b

\* Lines 543-560: overwrite the row found, or add one; commit.
WriteSubmission(r) ==
  IF r.existing_submission # None
    THEN [submissions EXCEPT ![Val(r.existing_submission)] =
            [@ EXCEPT !.submission_text = r.submission_text,
                      !.file_path = OrElse(r.file_path, @),
                      !.is_submitted = TRUE,
                      !.is_late = r.is_late,
                      !.submitted_at = clock]]
    ELSE Append(submissions,
                [task_id |-> r.task_id, participant_id |-> r.user,
                 submission_text |-> r.submission_text,
                 file_path |-> r.file_path, is_submitted |-> TRUE,
                 is_late |-> r.is_late, submitted_at |-> clock])

submit_task_write(w) ==
  /\ req[w].pc = "submit_write"
  /\ submissions' = WriteSubmission(req[w])
  /\ Goto(w, [req[w] EXCEPT !.pc = "submit_notify"])
  /\ UNCHANGED <<clock, users, programs, enrollments, tasks, grades,
                 feedbacks, notifications>>

submit_task_notify(w) ==
  /\ req[w].pc = "submit_notify"
  /\ create_notification(tasks[req[w].task_id].organizer_id,
                         <<"submitted", req[w].user,
                           tasks[req[w].task_id].title>>,
                         "submission", Some(req[w].task_id))
  /\ Respond(w, "submitted", <<>>)
  /\ UNCHANGED <<clock, users, programs, enrollments, tasks, submissions,
                 grades, feedbacks>>

(* -------------------------- grade_participants ------------------------ *)
ParticipantIds == {3, 4}
GradeStrings == {None, Some(""), Some("5"), Some("07"), Some("x")}
GradeForms == [ParticipantIds -> GradeStrings]

\* request.form.get(f'grade_{id}')
FormGet(form, id) == IF id \in DOMAIN form THEN form[id] ELSE None
\* "if grade_value:"
Truthy(o) == o # None /\ Val(o) # ""
IsInt(s) == s \in {"5", "07"}
\* int(grade_value) where it does not raise
IntOf(s) == IF s = "5" THEN 5 ELSE 7

\* The role checked and the ownership not: any organizer passes.
OwnsTask_role(u, task_id) == Role(u) = "organizer"

OwnsTask(u, task_id) ==
  Role(u) = "organizer" /\ tasks[task_id].organizer_id = u

\* The lookup of lines 368-371 with its result dropped: never a row found.
GradesOf_none(task_id, participant_id) == {}

GradesOf(task_id, participant_id) ==
  FilterBy(grades, [task_id |-> task_id, participant_id |-> participant_id])

Lowest(ids) == CHOOSE i \in ids : \A j \in ids : i <= j

RECURSIVE GradePlan(_, _, _, _)
\* Lines 364-382: for each participant with a grade in the form, the Grade
\* row the session changes (the row found, or a new one). A participant met
\* again finds the row the session already holds.
GradePlan(participants, form, task_id, done) ==
  IF participants = <<>> THEN <<>>
  ELSE LET p == Head(participants)
           v == FormGet(form, p)
       IN IF Truthy(v) /\ p \notin done
            THEN << [participant_id |-> p, grade_value |-> Val(v),
                     grade |-> IF GradesOf(task_id, p) = {} THEN None
                               ELSE Some(Lowest(GradesOf(task_id, p)))] >>
                 \o GradePlan(Tail(participants), form, task_id, done \cup {p})
            ELSE GradePlan(Tail(participants), form, task_id, done)

RECURSIVE Graded(_, _)
\* Lines 387-389: the participants the second loop notifies, with the form's
\* text of the grade.
Graded(participants, form) ==
  IF participants = <<>> THEN <<>>
  ELSE LET p == Head(participants)
       IN (IF Truthy(FormGet(form, p))
             THEN << [participant_id |-> p,
                      grade_value |-> Val(FormGet(form, p))] >>
             ELSE <<>>)
          \o Graded(Tail(participants), form)

\* Lines 353-382: the checks, the participants of the task's program, and
\* the first loop's lookups; int() of a grade that is no number ends the
\* request with nothing committed.
grade_participants(w, u, task_id, method, form) ==
  /\ req[w] = Idle
  /\ IF ~LoggedIn(u) THEN Answer(w, "redirect_login")
     ELSE IF task_id \notin DOMAIN tasks THEN Answer(w, "not_found")
     ELSE IF ~OwnsTask(u, task_id) THEN Answer(w, "redirect_home")
     ELSE IF method # "POST" THEN Answer(w, "grade_page")
     ELSE \E order \in Orders(ProgramEnrollments(tasks[task_id].program_id)) :
       LET participants == [i \in DOMAIN order |->
                              enrollments[order[i]].participant_id]
           plan == GradePlan(participants, form, task_id, {})
       IN IF \E i \in DOMAIN plan : ~IsInt(plan[i].grade_value)
            THEN Answer(w, "server_error")
          ELSE /\ Room(Len(plan))
               /\ Start(w, [pc |-> "grade_commit", user |-> u,
                            task_id |-> task_id, form |-> form,
                            participants |-> participants, plan |-> plan])
               /\ UNCHANGED <<clock, db>>

RECURSIVE WriteGrades(_, _, _, _)
WriteGrades(table, plan, task_id, organizer_id) ==
  IF plan = <<>> THEN table
  ELSE LET e == Head(plan)
           t == IF e.grade # None
                  THEN [table EXCEPT ![Val(e.grade)].value =
                                       IntOf(e.grade_value)]
                  ELSE Append(table, [value |-> IntOf(e.grade_value),
                                      task_id |-> task_id,
                                      participant_id |-> e.participant_id,
                                      organizer_id |-> organizer_id])
       IN WriteGrades(t, Tail(plan), task_id, organizer_id)

\* The batch's rows never committed: the notifications go out all the same.
grade_participants_commit_lost(w) ==
  /\ req[w].pc = "grade_commit"
  /\ IF Graded(req[w].participants, req[w].form) = <<>>
       THEN Respond(w, "grades_updated", <<>>)
       ELSE Goto(w, [pc |-> "grade_notify", user |-> req[w].user,
                     task_id |-> req[w].task_id, form |-> req[w].form,
                     graded |-> Graded(req[w].participants, req[w].form)])
  /\ UNCHANGED <<clock, db>>

\* Line 384: the one commit of the batch; then the second loop reads the form
\* again, and with no grade in it the redirect follows at once.
grade_participants_commit(w) ==
  /\ req[w].pc = "grade_commit"
  /\ grades' = WriteGrades(grades, req[w].plan, req[w].task_id, req[w].user)
  /\ IF Graded(req[w].participants, req[w].form) = <<>>
       THEN Respond(w, "grades_updated", <<>>)
       ELSE Goto(w, [pc |-> "grade_notify", user |-> req[w].user,
                     task_id |-> req[w].task_id, form |-> req[w].form,
                     graded |-> Graded(req[w].participants, req[w].form)])
  /\ UNCHANGED <<clock, users, programs, enrollments, tasks, submissions,
                 feedbacks, notifications>>

\* Lines 387-398: one notification (and commit) per graded participant.
grade_participants_notify(w) ==
  /\ req[w].pc = "grade_notify"
  /\ create_notification(Head(req[w].graded).participant_id,
                         <<"graded", tasks[req[w].task_id].title,
                           Head(req[w].graded).grade_value>>,
                         "grade", Some(req[w].task_id))
  /\ IF Tail(req[w].graded) = <<>>
       THEN Respond(w, "grades_updated", <<>>)
       ELSE Goto(w, [req[w] EXCEPT !.graded = Tail(@)])
  /\ UNCHANGED <<clock, users, programs, enrollments, tasks, submissions,
                 grades, feedbacks>>

(* --------------------------- add_task_feedback ------------------------ *)
FeedbackTexts == {"", "a", "b"}
RatingStrings == {"", "x", "0", "4", "5", "6"}

\* IntegerField.process_formdata: int(text), and None where int raises.
RatingData(s) ==
  CASE s = "0" -> Some(0)
    [] s = "4" -> Some(4)
    [] s = "5" -> Some(5)
    [] s = "6" -> Some(6)
    [] OTHER -> None

\* DataRequired on the rating: the field's data is truthy (not None, not 0).
DataRequired(data) == data # None /\ Val(data) # 0

\* TaskFeedbackForm.validate_on_submit: a POST whose text is not empty
\* (DataRequired on a string) and whose rating passes DataRequired.
TaskFeedbackForm(method, feedback_text, rating) ==
  /\ method = "POST"
  /\ feedback_text # ""
  /\ DataRequired(RatingData(rating))

FeedbacksOf(task_id, participant_id) ==
  FilterBy(feedbacks, [task_id |-> task_id, participant_id |-> participant_id])

add_task_feedback(w, u, task_id, participant_id, method, feedback_text, rating) ==
  /\ req[w] = Idle
  /\ IF ~LoggedIn(u) THEN Answer(w, "redirect_login")
     ELSE IF task_id \notin DOMAIN tasks THEN Answer(w, "not_found")
     ELSE IF participant_id \notin DOMAIN users THEN Answer(w, "not_found")
     ELSE IF ~OwnsTask(u, task_id) THEN Answer(w, "redirect_home")
     ELSE IF SubmissionsOf(task_id, participant_id) = {}
       THEN Answer(w, "not_found")
     ELSE IF ~TaskFeedbackForm(method, feedback_text, rating)
       THEN Answer(w, "feedback_page")
     ELSE /\ Room(1)
          /\ \E feedback \in First(FeedbacksOf(task_id, participant_id)) :
               Start(w, [pc |-> "feedback_commit", user |-> u,
                        task_id |-> task_id,
                        participant_id |-> participant_id,
                        feedback |-> feedback,
                        feedback_text |-> feedback_text,
                        rating |-> Val(RatingData(rating))])
          /\ UNCHANGED <<clock, db>>

\* Lines 619-633: overwrite the row found, or add one; commit.
WriteFeedback(r) ==
  IF r.feedback # None
    THEN [feedbacks EXCEPT ![Val(r.feedback)] =
            [@ EXCEPT !.feedback_text = r.feedback_text,
                      !.rating = r.rating]]
    ELSE Append(feedbacks,
                [task_id |-> r.task_id, participant_id |-> r.participant_id,
                 organizer_id |-> r.user, feedback_text |-> r.feedback_text,
                 rating |-> r.rating])

add_task_feedback_commit(w) ==
  /\ req[w].pc = "feedback_commit"
  /\ feedbacks' = WriteFeedback(req[w])
  /\ Goto(w, [req[w] EXCEPT !.pc = "feedback_notify"])
  /\ UNCHANGED <<clock, users, programs, enrollments, tasks, submissions,
                 grades, notifications>>

add_task_feedback_notify(w) ==
  /\ req[w].pc = "feedback_notify"
  /\ create_notification(req[w].participant_id,
                         <<"feedback", tasks[req[w].task_id].title>>,
                         "feedback", Some(req[w].task_id))
  /\ Respond(w, "feedback_saved", <<>>)
  /\ UNCHANGED <<clock, users, programs, enrollments, tasks, submissions,
                 grades, feedbacks>>

(* --------------------------- view_notifications ----------------------- *)
NotificationsOf(u) == FilterBy(notifications, [user_id |-> u])
\* The unread query without its user_id: everyone's unread notifications.
UnreadOf_all(u) == FilterBy(notifications, [is_read |-> FALSE])

UnreadOf(u) ==
  FilterBy(notifications, [user_id |-> u, is_read |-> FALSE])

\* order_by(created_at.desc()): rows of equal created_at come in any order.
Descending(order) ==
  \A i, j \in DOMAIN order :
    i < j => notifications[order[i]].created_at
               >= notifications[order[j]].created_at

\* Line 446: the listing query.
view_notifications(w, u) ==
  /\ req[w] = Idle
  /\ IF ~LoggedIn(u) THEN Answer(w, "redirect_login")
     ELSE /\ \E order \in Orders(NotificationsOf(u)) :
               /\ Descending(order)
               /\ Start(w, [pc |-> "view_mark", user |-> u,
                           notifications |-> order])
          /\ UNCHANGED <<clock, db>>

\* Lines 449-454: the unread query, the flags, the commit, the page.
view_notifications_mark(w) ==
  /\ req[w].pc = "view_mark"
  /\ notifications' =
       [i \in DOMAIN notifications |->
          IF i \in UnreadOf(req[w].user)
            THEN [notifications[i] EXCEPT !.is_read = TRUE]
            ELSE notifications[i]]
  /\ Respond(w, "notifications_page",
             [user |-> req[w].user, notifications |-> req[w].notifications])
  /\ UNCHANGED <<clock, users, programs, enrollments, tasks, submissions,
                 grades, feedbacks>>

get_unread_notification_count(w, u) ==
  /\ req[w] = Idle
  /\ IF ~LoggedIn(u) THEN Answer(w, "redirect_login")
     ELSE /\ Respond(w, "unread_count",
                     [user |-> u, unread_count |-> Cardinality(UnreadOf(u))])
          /\ UNCHANGED <<clock, db>>

(* ------------------------------ register ------------------------------ *)
\* The form's inputs. The strings stand for whole values: "org1" and "org1@x"
\* are taken, "ann" is too short, "anna" has no domain, "12345" is too short
\* and "admin" is not one of the choices.
Usernames == {"org1", "anna", "ann"}
Emails == {"org1@x", "anna@x", "anna"}
Passwords == {"12345", "123456"}
Names == {"", "Ann"}
Roles == {"organizer", "participant", "admin"}

\* Email(): a local part, an @ and a domain.
Email(s) == s \in {"org1@x", "org2@x", "part1@x", "part2@x", "anna@x"}

RegistrationForm(method, username, email, password, first_name, last_name, role) ==
  /\ method = "POST"
  /\ username # "" /\ Len(username) >= 4 /\ Len(username) <= 20
  /\ email # "" /\ Email(email)
  /\ password # "" /\ Len(password) >= 6
  /\ first_name # ""
  /\ last_name # ""
  /\ role \in {"organizer", "participant"}

\* The unique indexes of User.username and User.email admit the row.
UniqueUser_none(row) == TRUE

UniqueUser(row) ==
  /\ FilterBy(users, [username |-> row.username]) = {}
  /\ FilterBy(users, [email |-> row.email]) = {}

\* The form is validated and the username looked up.
register(w, method, username, email, password, first_name, last_name, role) ==
  /\ req[w] = Idle
  /\ IF ~RegistrationForm(method, username, email, password, first_name,
                          last_name, role)
       THEN Answer(w, "register_page")
     ELSE IF FilterBy(users, [username |-> username]) # {}
       THEN Answer(w, "username_exists")
     ELSE /\ Len(users) < MaxUsers
          /\ Start(w, [pc |-> "register_email", username |-> username,
                       email |-> email, role |-> role])
          /\ UNCHANGED <<clock, db>>

\* The email is looked up.
register_email(w) ==
  /\ req[w].pc = "register_email"
  /\ IF FilterBy(users, [email |-> req[w].email]) # {}
       THEN Answer(w, "email_exists")
     ELSE /\ Goto(w, [req[w] EXCEPT !.pc = "register_commit"])
          /\ UNCHANGED <<clock, db>>

\* db.session.add(user); db.session.commit(): the insert fails with an
\* IntegrityError when a unique index rejects the row.
register_commit(w) ==
  /\ req[w].pc = "register_commit"
  /\ LET row == [username |-> req[w].username, email |-> req[w].email,
                 role |-> req[w].role]
     IN IF UniqueUser(row)
          THEN /\ users' = Append(users, row)
               /\ Respond(w, "redirect_login", <<>>)
               /\ UNCHANGED <<clock, programs, enrollments, tasks, submissions,
                              grades, feedbacks, notifications>>
        ELSE Answer(w, "server_error")

(* -------------------------------- clock ------------------------------- *)
Tick ==
  /\ clock < MaxTime
  /\ clock' = clock + 1
  /\ UNCHANGED <<db, req, resp>>

(* ---------------------------- specification --------------------------- *)
Init ==
  /\ clock = 0
  /\ users = SeedUsers
  /\ programs = SeedPrograms
  /\ enrollments = <<>>
  /\ tasks = <<>>
  /\ submissions = <<>>
  /\ grades = <<>>
  /\ feedbacks = <<>>
  /\ notifications = <<>>
  /\ req = [w \in Workers |-> Idle]
  /\ resp = [w \in Workers |-> NoResponse]

\* The requests that set a class up: the owner of program 1 enrols the
\* participants S and creates tasks.
SetUp(S) ==
  \/ \E w \in Workers, s \in S : enroll_participant(w, 1, 1, s)
  \/ \E w \in Workers : enroll_participant_commit(w)
  \/ \E w \in Workers, d \in DueStrings : create_task(w, 1, 1, "POST", "hw", d)
  \/ \E w \in Workers : create_task_query(w)
  \/ \E w \in Workers : create_task_notify(w)

Submits(U, T, X, F) ==
  \/ \E w \in Workers, u \in U, t \in T, x \in X, f \in F :
       submit_task(w, u, t, x, f)
  \/ \E w \in Workers : submit_task_write(w)
  \/ \E w \in Workers : submit_task_notify(w)

NextEnroll ==
  \/ \E w \in Workers, u \in Principals, p \in ProgramIds, s \in IdStrings :
       enroll_participant(w, u, p, s)
  \/ \E w \in Workers : enroll_participant_commit(w)

NextTask ==
  \/ \E w \in Workers, u \in {1, 2}, p \in {1, 2}, s \in {"3", "4"} :
       enroll_participant(w, u, p, s)
  \/ \E w \in Workers : enroll_participant_commit(w)
  \/ \E w \in Workers, u \in Principals, p \in ProgramIds, m \in Methods,
        t \in Titles, d \in DueStrings :
       create_task(w, u, p, m, t, d)
  \/ \E w \in Workers : create_task_query(w)
  \/ \E w \in Workers : create_task_notify(w)

NextSubmit ==
  \/ Tick
  \/ SetUp({"3"})
  \/ Submits(Principals, TaskIds, Texts, Files)

\* Every principal with one form, and the task's owner with every form: the
\* handler returns before it reads the form of a principal it turns away.
NextGrade ==
  \/ SetUp({"3", "4"})
  \/ \E w \in Workers, u \in Principals, t \in TaskIds, m \in Methods :
       grade_participants(w, u, t, m, [p \in ParticipantIds |-> Some("5")])
  \/ \E w \in Workers, t \in TaskIds, f \in GradeForms :
       grade_participants(w, 1, t, "POST", f)
  \/ \E w \in Workers : grade_participants_commit(w)
  \/ \E w \in Workers : grade_participants_notify(w)

NextFeedback ==
  \/ SetUp({"3", "4"})
  \/ Submits({3, 4}, {1}, {"a"}, {None})
  \/ \E w \in Workers, u \in Principals, t \in TaskIds, p \in {1, 3, 4, 9},
        m \in Methods :
       add_task_feedback(w, u, t, p, m, "a", "4")
  \/ \E w \in Workers, p \in {3, 4}, x \in FeedbackTexts, r \in RatingStrings :
       add_task_feedback(w, 1, 1, p, "POST", x, r)
  \/ \E w \in Workers : add_task_feedback_commit(w)
  \/ \E w \in Workers : add_task_feedback_notify(w)

NextNotify ==
  \/ Tick
  \/ SetUp({"3"})
  \/ Submits({3}, {1}, {"a"}, {None})
  \/ \E w \in Workers, u \in Principals : view_notifications(w, u)
  \/ \E w \in Workers : view_notifications_mark(w)
  \/ \E w \in Workers, u \in Principals : get_unread_notification_count(w, u)

\* Every handler that writes, called by every principal with one form each:
\* for program 1 and task 1, user 1 is the owner, user 2 an organizer who is
\* not, user 3 the participant who gets enrolled and user 4 one who does not.
NextGate ==
  \/ \E w \in Workers, u \in Principals : enroll_participant(w, u, 1, "3")
  \/ \E w \in Workers : enroll_participant_commit(w)
  \/ \E w \in Workers, u \in Principals :
       create_task(w, u, 1, "POST", "hw", "")
  \/ \E w \in Workers : create_task_query(w)
  \/ \E w \in Workers : create_task_notify(w)
  \/ Submits(Principals, {1}, {"a"}, {None})
  \/ \E w \in Workers, u \in Principals :
       grade_participants(w, u, 1, "POST", [p \in ParticipantIds |-> Some("5")])
  \/ \E w \in Workers : grade_participants_commit(w)
  \/ \E w \in Workers : grade_participants_notify(w)
  \/ \E w \in Workers, u \in Principals :
       add_task_feedback(w, u, 1, 3, "POST", "a", "4")
  \/ \E w \in Workers : add_task_feedback_commit(w)
  \/ \E w \in Workers : add_task_feedback_notify(w)

\* Two requests in flight at once.
InitConcurrent ==
  /\ clock = 0
  /\ users = SeedUsers
  /\ programs = SeedPrograms
  /\ enrollments = <<>>
  /\ tasks = <<>>
  /\ submissions = <<>>
  /\ grades = <<>>
  /\ feedbacks = <<>>
  /\ notifications = <<>>
  /\ req = [w \in Clients |-> Idle]
  /\ resp = [w \in Clients |-> NoResponse]

\* Registrations, two at a time, next to the enrolments of program 1.
NextRegister ==
  \/ \E w \in Clients, n \in Usernames, e \in Emails :
       register(w, "POST", n, e, "123456", "Ann", "Lee", "participant")
  \/ \E w \in Clients, m \in Methods, p \in Passwords, f \in Names,
        r \in Roles :
       register(w, m, "anna", "anna@x", p, f, "Lee", r)
  \/ \E w \in Clients : register_email(w)
  \/ \E w \in Clients : register_commit(w)
  \/ \E w \in Clients, u \in Principals : enroll_participant(w, u, 1, "3")
  \/ \E w \in Clients : enroll_participant_commit(w)

\* Every handler that sends a notification, next to the two that read them.
NextInbox ==
  \/ NextGate
  \/ \E w \in Workers, u \in Principals : view_notifications(w, u)
  \/ \E w \in Workers : view_notifications_mark(w)
  \/ \E w \in Workers, u \in Principals : get_unread_notification_count(w, u)

SpecInbox == Init /\ [][NextInbox]_vars
\* Two requests at a time of the owner and the participant of one class: each
\* handler that looks a pair's row up and then inserts or updates it.
NextRace ==
  \/ \E w \in Clients : enroll_participant(w, 1, 1, "3")
  \/ \E w \in Clients : enroll_participant_commit(w)
  \/ \E w \in Clients : create_task(w, 1, 1, "POST", "hw", "")
  \/ \E w \in Clients : create_task_query(w)
  \/ \E w \in Clients : create_task_notify(w)
  \/ \E w \in Clients : submit_task(w, 3, 1, "a", None)
  \/ \E w \in Clients : submit_task_write(w)
  \/ \E w \in Clients : submit_task_notify(w)
  \/ \E w \in Clients :
       grade_participants(w, 1, 1, "POST", [p \in ParticipantIds |-> Some("5")])
  \/ \E w \in Clients : grade_participants_commit(w)
  \/ \E w \in Clients : grade_participants_notify(w)
  \/ \E w \in Clients : add_task_feedback(w, 1, 1, 3, "POST", "a", "4")
  \/ \E w \in Clients : add_task_feedback_commit(w)
  \/ \E w \in Clients : add_task_feedback_notify(w)

SpecRace == InitConcurrent /\ [][NextRace]_vars
\* The owner and the participant of one class read their notifications while
\* the other's request sends one.
NextView ==
  \/ \E w \in Clients : enroll_participant(w, 1, 1, "3")
  \/ \E w \in Clients : enroll_participant_commit(w)
  \/ \E w \in Clients : create_task(w, 1, 1, "POST", "hw", "")
  \/ \E w \in Clients : create_task_query(w)
  \/ \E w \in Clients : create_task_notify(w)
  \/ \E w \in Clients : submit_task(w, 3, 1, "a", None)
  \/ \E w \in Clients : submit_task_write(w)
  \/ \E w \in Clients : submit_task_notify(w)
  \/ \E w \in Clients, u \in {1, 3} : view_notifications(w, u)
  \/ \E w \in Clients : view_notifications_mark(w)

SpecView == InitConcurrent /\ [][NextView]_vars
SpecRegister == InitConcurrent /\ [][NextRegister]_vars
SpecGate == Init /\ [][NextGate]_vars
SpecEnroll == Init /\ [][NextEnroll]_vars
SpecTask == Init /\ [][NextTask]_vars
SpecSubmit == Init /\ [][NextSubmit]_vars
SpecGrade == Init /\ [][NextGrade]_vars
SpecFeedback == Init /\ [][NextFeedback]_vars
SpecNotify == Init /\ [][NextNotify]_vars

(* ------------------------------- claims ------------------------------- *)
\* The Enrollment rows of a pair, counted on the table itself.
RowsOfPair(table, participant_id, program_id) ==
  { i \in DOMAIN table :
      /\ table[i].participant_id = participant_id
      /\ table[i].program_id = program_id }

EnrollmentRows(participant_id, program_id) ==
  RowsOfPair(enrollments, participant_id, program_id)

IsParticipantId(s) ==
  /\ s # ""
  /\ IdOf(s) \in DOMAIN users
  /\ users[IdOf(s)].role = "participant"

IsOwner(u, program_id) ==
  /\ u \in DOMAIN users
  /\ program_id \in DOMAIN programs
  /\ users[u].role = "organizer"
  /\ programs[program_id].organizer_id = u

C1_UniquePair ==
  \A p \in DOMAIN users, g \in DOMAIN programs :
    Cardinality(EnrollmentRows(p, g)) <= 1

C1_EnrollStep ==
  \A w \in Workers, u \in Principals, g \in ProgramIds, s \in IdStrings :
    (IsOwner(u, g) /\ IsParticipantId(s) /\ enroll_participant(w, u, g, s)) =>
      IF EnrollmentRows(IdOf(s), g) # {}
        THEN /\ resp'[w].outcome = "already_enrolled"
             /\ enrollments' = enrollments
        ELSE /\ enrollments' = enrollments
             /\ req'[w].pc = "enroll_commit"
             /\ req'[w].participant_id = IdOf(s)
             /\ req'[w].program_id = g

C1_CommitStep ==
  \A w \in Workers :
    (req[w].pc = "enroll_commit" /\ req'[w] # req[w]) =>
      /\ resp'[w].outcome = "enrolled"
      /\ Len(enrollments') = Len(enrollments) + 1
      /\ EnrollmentRows(req[w].participant_id, req[w].program_id) = {}
      /\ Cardinality(RowsOfPair(enrollments', req[w].participant_id,
                                req[w].program_id)) = 1

\* C1: at most one Enrollment row per (participant_id, program_id); the first
\* enroll of a participant by the program's owner adds exactly one row, a
\* second enroll of the pair adds none and answers 'already enrolled'.
C1_EnrollOnce ==
  /\ []C1_UniquePair
  /\ [][C1_EnrollStep /\ C1_CommitStep]_vars

\* A second enroll of an enrolled pair has been answered.
C1_Witness ==
  /\ resp[1].outcome = "already_enrolled"
  /\ \E p \in DOMAIN users, g \in DOMAIN programs :
       Cardinality(EnrollmentRows(p, g)) = 1

\* C2: every stored Submission has is_late = (submitted_at > task.due_date)
\* when the task has a due date, and is_late = FALSE when it has none.
C2_LateIffAfterDue ==
  \A i \in DOMAIN submissions :
    LET due_date == tasks[submissions[i].task_id].due_date
    IN submissions[i].is_late =
         (due_date # None /\ submissions[i].submitted_at > Val(due_date))

SubmissionRows(table, task_id, participant_id) ==
  { i \in DOMAIN table :
      /\ table[i].task_id = task_id
      /\ table[i].participant_id = participant_id }

C3_OneRow ==
  \A t \in DOMAIN tasks, p \in DOMAIN users :
    /\ Cardinality(SubmissionRows(submissions, t, p)) <= 1
    /\ \A i \in SubmissionRows(submissions, t, p) : submissions[i].is_submitted

CarriesFile(f) == f # None /\ Val(f) # ""

\* An enrolled participant's submit reaches the write with the call's text
\* and file.
C3_SubmitStep ==
  \A w \in Workers, u \in Principals, t \in TaskIds, x \in Texts, f \in Files :
    (/\ u \in DOMAIN users /\ users[u].role = "participant"
     /\ t \in DOMAIN tasks
     /\ RowsOfPair(enrollments, u, tasks[t].program_id) # {}
     /\ submit_task(w, u, t, x, f)) =>
      /\ req'[w].pc = "submit_write"
      /\ req'[w].user = u /\ req'[w].task_id = t
      /\ req'[w].submission_text = x
      /\ (req'[w].file_path # None) = CarriesFile(f)
      /\ submissions' = submissions

\* The write leaves one row for the pair: the call's text, the time of the
\* write, the call's file or else the file stored before.
C3_WriteStep ==
  \A w \in Workers :
    (req[w].pc = "submit_write" /\ req'[w] # req[w]) =>
      LET old == SubmissionRows(submissions, req[w].task_id, req[w].user)
          new == SubmissionRows(submissions', req[w].task_id, req[w].user)
      IN /\ Cardinality(new) = 1
         /\ Len(submissions') = Len(submissions) + (IF old = {} THEN 1 ELSE 0)
         /\ \A i \in DOMAIN submissions : i \notin old =>
              submissions'[i] = submissions[i]
         /\ \A i \in new :
              /\ submissions'[i].submission_text = req[w].submission_text
              /\ submissions'[i].submitted_at = clock
              /\ submissions'[i].is_submitted
              /\ submissions'[i].file_path =
                   IF req[w].file_path # None THEN req[w].file_path
                   ELSE IF old = {} THEN None
                   ELSE submissions[i].file_path

\* C3: submit_task is an upsert: one Submission row per (task_id,
\* participant_id), holding the latest call's text and time, is_submitted, and
\* the latest call's file or else the file stored before.
C3_Upsert ==
  /\ []C3_OneRow
  /\ [][C3_SubmitStep /\ C3_WriteStep]_vars

\* A second submit without a file has overwritten a row that holds a file, at
\* a later time than the first.
C3_Witness ==
  /\ req[1].pc = "submit_notify"
  /\ req[1].existing_submission # None
  /\ req[1].file_path = None
  /\ \E i \in DOMAIN submissions :
       /\ submissions[i].file_path # None
       /\ submissions[i].submitted_at > submissions[i].file_path[1][1]
       /\ submissions[i].submission_text = ""

SeqRange(q) == { q[i] : i \in DOMAIN q }

GradeRows(table, task_id, participant_id) ==
  { i \in DOMAIN table :
      /\ table[i].task_id = task_id
      /\ table[i].participant_id = participant_id }

IsTaskOwner(u, task_id) ==
  /\ u \in DOMAIN users
  /\ task_id \in DOMAIN tasks
  /\ users[u].role = "organizer"
  /\ tasks[task_id].organizer_id = u

\* The participants of the task's program whose form entry is a number.
GradedBy(form, task_id) ==
  { p \in DOMAIN form :
      /\ form[p] \in {Some("5"), Some("07")}
      /\ RowsOfPair(enrollments, p, tasks[task_id].program_id) # {} }

FormValue(form, p) == IF form[p] = Some("5") THEN 5 ELSE 7

C4_OneRow ==
  \A t \in DOMAIN tasks, p \in DOMAIN users :
    Cardinality(GradeRows(grades, t, p)) <= 1

\* The commit leaves one row with the form's value for every enrolled
\* participant whose entry is a number, leaves the rows of every other pair
\* as they were, and adds a row only for a pair that had none.
C4_CommitStep ==
  \A w \in Workers :
    (req[w].pc = "grade_commit" /\ req'[w] # req[w]) =>
      LET t == req[w].task_id
          f == req[w].form
      IN /\ \A p \in GradedBy(f, t) :
              /\ Cardinality(GradeRows(grades', t, p)) = 1
              /\ \A i \in GradeRows(grades', t, p) :
                   grades'[i].value = FormValue(f, p)
         /\ \A i \in DOMAIN grades :
              (grades[i].task_id # t
                 \/ grades[i].participant_id \notin GradedBy(f, t))
                => grades'[i] = grades[i]
         /\ Len(grades') =
              Len(grades)
                + Cardinality({ p \in GradedBy(f, t) :
                                 GradeRows(grades, t, p) = {} })

\* C4: grade_participants upserts one Grade row per (task_id, participant_id):
\* the same value recorded twice leaves one row with that value, a later value
\* overwrites it in place, and an absent or empty entry creates, changes and
\* deletes nothing.
C4_GradeUpsert ==
  /\ []C4_OneRow
  /\ [][C4_CommitStep]_vars

GradeNotifications(table, task_id, participant_id) ==
  { i \in DOMAIN table :
      /\ table[i].notification_type = "grade"
      /\ table[i].reference_id = Some(task_id)
      /\ table[i].user_id = participant_id }

\* The same value has been recorded twice for one participant, whose row holds
\* it once, and the other participant's entry was skipped.
C4_Witness ==
  /\ req[1] = Idle
  /\ \E t \in DOMAIN tasks, p \in DOMAIN users :
       /\ \E i, j \in GradeNotifications(notifications, t, p) :
            i # j /\ notifications[i].message = notifications[j].message
       /\ Cardinality(GradeRows(grades, t, p)) = 1
       /\ \E q \in DOMAIN users :
            /\ RowsOfPair(enrollments, q, tasks[t].program_id) # {}
            /\ GradeRows(grades, t, q) = {}

\* A grade notification of (task, participant) has a Grade row of the pair.
C9_NotifiedIsGraded ==
  \A i \in DOMAIN notifications :
    notifications[i].notification_type = "grade" =>
      /\ notifications[i].reference_id # None
      /\ GradeRows(grades, Val(notifications[i].reference_id),
                   notifications[i].user_id) # {}

\* While a batch notifies, every grade of the batch is in the table.
C9_BatchPersisted ==
  \A w \in Workers :
    req[w].pc = "grade_notify" =>
      \A p \in GradedBy(req[w].form, req[w].task_id) :
        \E i \in GradeRows(grades, req[w].task_id, p) :
          grades[i].value = FormValue(req[w].form, p)

\* Every step that adds a grade notification is a step of a batch past its
\* commit, adds one notification, unread, of type 'grade', referencing the
\* task, for the next participant of the list.
C9_NotifyStep ==
  (/\ notifications' # notifications
   /\ \/ \E w \in Workers : req[w].pc \in {"grade_commit", "grade_notify"}
      \/ Len(notifications') > Len(notifications)
         /\ notifications'[Len(notifications')].notification_type = "grade") =>
    \E w \in Workers :
      /\ req[w].pc = "grade_notify"
      /\ notifications' =
           Append(notifications,
                  [user_id |-> Head(req[w].graded).participant_id,
                   message |-> <<"graded", tasks[req[w].task_id].title,
                                 Head(req[w].graded).grade_value>>,
                   notification_type |-> "grade",
                   reference_id |-> Some(req[w].task_id),
                   is_read |-> FALSE, created_at |-> clock])
      /\ IF Len(req[w].graded) = 1
           THEN req'[w] = Idle /\ resp'[w].outcome = "grades_updated"
           ELSE req'[w] = [req[w] EXCEPT !.graded = Tail(@)]

\* The commit emits nothing; the list it hands to the second loop holds the
\* graded participants, each once, and no skipped entry.
C9_CommitBeforeNotify ==
  \A w \in Workers :
    (req[w].pc = "grade_commit" /\ req'[w] # req[w]) =>
      /\ notifications' = notifications
      /\ IF GradedBy(req[w].form, req[w].task_id) = {}
           THEN req'[w] = Idle /\ resp'[w].outcome = "grades_updated"
           ELSE /\ req'[w].pc = "grade_notify"
                /\ { e.participant_id : e \in SeqRange(req'[w].graded) }
                     = GradedBy(req[w].form, req[w].task_id)
                /\ Len(req'[w].graded)
                     = Cardinality(GradedBy(req[w].form, req[w].task_id))

\* C9: grade_participants commits the batch's grades, then emits one 'grade'
\* notification per graded participant: a grade notification implies a Grade
\* row of its pair, and a row may be there before its notification.
C9_CommitThenNotify ==
  /\ [](C9_NotifiedIsGraded /\ C9_BatchPersisted)
  /\ [][C9_CommitBeforeNotify /\ C9_NotifyStep]_vars

\* Two participants graded in one batch, the rows committed, the first
\* notification out and the second not yet.
C9_Witness ==
  /\ req[1].pc = "grade_notify"
  /\ Cardinality(GradedBy(req[1].form, req[1].task_id)) = 2
  /\ Len(req[1].graded) = 1
  /\ GradeRows(grades, req[1].task_id, Head(req[1].graded).participant_id) # {}
  /\ GradeNotifications(notifications, req[1].task_id,
                        Head(req[1].graded).participant_id) = {}
  /\ \E p \in DOMAIN users :
       GradeNotifications(notifications, req[1].task_id, p) # {}

TaskNotifications(table, task_id, participant_id) ==
  { i \in DOMAIN table :
      /\ table[i].notification_type = "task"
      /\ table[i].reference_id = Some(task_id)
      /\ table[i].user_id = participant_id }

EnrolledIn(program_id) ==
  { p \in DOMAIN users : RowsOfPair(enrollments, p, program_id) # {} }

\* A 'task' notification references a stored task, goes to a user enrolled in
\* the task's program, and is the only one of its (user, task).
C10_OnlyEnrolled ==
  \A i \in DOMAIN notifications :
    notifications[i].notification_type = "task" =>
      /\ notifications[i].reference_id # None
      /\ Val(notifications[i].reference_id) \in DOMAIN tasks
      /\ notifications[i].user_id
           \in EnrolledIn(tasks[Val(notifications[i].reference_id)].program_id)
      /\ Cardinality(TaskNotifications(notifications,
                                       Val(notifications[i].reference_id),
                                       notifications[i].user_id)) = 1

\* The step that stores a task is the owner's create_task; it emits nothing
\* yet.
C10_CreateStep ==
  Len(tasks') > Len(tasks) =>
    \E w \in Workers :
      /\ req[w] = Idle
      /\ tasks' = Append(tasks, tasks'[Len(tasks')])
      /\ notifications' = notifications
      /\ req'[w].pc = "create_task_query"
      /\ req'[w].task_id = Len(tasks')
      /\ req'[w].program_id = tasks'[Len(tasks')].program_id
      /\ IsOwner(tasks'[Len(tasks')].organizer_id, req'[w].program_id)

\* The recipients are the participants enrolled in the program when the
\* handler asks, each once.
C10_QueryStep ==
  \A w \in Workers :
    (req[w].pc = "create_task_query" /\ req'[w] # req[w]) =>
      /\ notifications' = notifications
      /\ IF EnrolledIn(req[w].program_id) = {}
           THEN req'[w] = Idle /\ resp'[w].outcome = "task_created"
           ELSE /\ req'[w].pc = "create_task_notify"
                /\ req'[w].task_id = req[w].task_id
                /\ SeqRange(req'[w].pending) = EnrolledIn(req[w].program_id)
                /\ Len(req'[w].pending)
                     = Cardinality(EnrolledIn(req[w].program_id))

\* Every step that adds a 'task' notification adds one, unread, referencing
\* the new task, for the next recipient; the redirect follows the last one.
C10_NotifyStep ==
  (/\ notifications' # notifications
   /\ \/ \E w \in Workers : req[w].pc = "create_task_notify"
      \/ Len(notifications') > Len(notifications)
         /\ notifications'[Len(notifications')].notification_type = "task") =>
    \E w \in Workers :
      /\ req[w].pc = "create_task_notify"
      /\ notifications' =
           Append(notifications,
                  [user_id |-> Head(req[w].pending),
                   message |-> <<"new task", tasks[req[w].task_id].title>>,
                   notification_type |-> "task",
                   reference_id |-> Some(req[w].task_id),
                   is_read |-> FALSE, created_at |-> clock])
      /\ IF Len(req[w].pending) = 1
           THEN req'[w] = Idle /\ resp'[w].outcome = "task_created"
           ELSE req'[w] = [req[w] EXCEPT !.pending = Tail(@)]

\* When create_task returns, each participant enrolled in the program has one
\* notification of the new task and no one else has any.
C10_DoneStep ==
  \A w \in Workers :
    (/\ req[w].pc \in {"create_task_query", "create_task_notify"}
     /\ req'[w] = Idle) =>
      \A p \in DOMAIN users :
        Cardinality(TaskNotifications(notifications', req[w].task_id, p)) =
          IF p \in EnrolledIn(req[w].program_id) THEN 1 ELSE 0

\* C10: create_task by the program's owner stores the Task, then emits one
\* 'task' notification referencing it to each participant enrolled in the
\* program at that moment, none to anyone else and none later.
C10_TaskFanOut ==
  /\ []C10_OnlyEnrolled
  /\ [][C10_CreateStep /\ C10_QueryStep /\ C10_NotifyStep /\ C10_DoneStep]_vars

\* A task whose notification went to the participant enrolled at the time;
\* another participant, enrolled in the program since, has none, and a
\* participant of the other program has none.
C10_Witness ==
  /\ req[1] = Idle
  /\ \E t \in DOMAIN tasks, p, q \in DOMAIN users :
       /\ TaskNotifications(notifications, t, p) # {}
       /\ q \in EnrolledIn(tasks[t].program_id)
       /\ TaskNotifications(notifications, t, q) = {}
       /\ \E g \in DOMAIN programs :
            g # tasks[t].program_id /\ EnrolledIn(g) # {}

FeedbackRows(table, task_id, participant_id) ==
  { i \in DOMAIN table :
      /\ table[i].task_id = task_id
      /\ table[i].participant_id = participant_id }

FeedbackNotifications(table, task_id, participant_id) ==
  { i \in DOMAIN table :
      /\ table[i].notification_type = "feedback"
      /\ table[i].reference_id = Some(task_id)
      /\ table[i].user_id = participant_id }

\* One Feedback row per pair at most, and a Submission row for its pair.
C5_OneRowOnSubmission ==
  \A i \in DOMAIN feedbacks :
    /\ Cardinality(FeedbackRows(feedbacks, feedbacks[i].task_id,
                                feedbacks[i].participant_id)) = 1
    /\ SubmissionRows(submissions, feedbacks[i].task_id,
                      feedbacks[i].participant_id) # {}

\* The task's organizer, no Submission of the pair: not found, whatever the
\* form, and nothing changes.
C5_NotFoundStep ==
  \A w \in Workers, t \in DOMAIN tasks, p \in DOMAIN users, m \in Methods :
    (/\ SubmissionRows(submissions, t, p) = {}
     /\ add_task_feedback(w, tasks[t].organizer_id, t, p, m, "a", "4")) =>
      /\ resp'[w].outcome = "not_found"
      /\ req'[w] = Idle
      /\ feedbacks' = feedbacks
      /\ notifications' = notifications

\* The task's organizer, a Submission of the pair, a text and a rating: the
\* request goes on to write them.
C5_FoundStep ==
  \A w \in Workers, t \in DOMAIN tasks, p \in DOMAIN users,
     x \in {"a", "b"}, r \in {"4", "5"} :
    (/\ SubmissionRows(submissions, t, p) # {}
     /\ add_task_feedback(w, tasks[t].organizer_id, t, p, "POST", x, r)) =>
      /\ req'[w].pc = "feedback_commit"
      /\ req'[w].task_id = t /\ req'[w].participant_id = p
      /\ req'[w].feedback_text = x
      /\ req'[w].rating = (IF r = "4" THEN 4 ELSE 5)

\* Every step that changes a Feedback row is the write of a request whose pair
\* has a Submission; it leaves one row of the pair, with the request's text
\* and rating, and every other row as it was.
C5_WriteStep ==
  feedbacks' # feedbacks =>
    \E w \in Workers :
      /\ req[w].pc = "feedback_commit"
      /\ SubmissionRows(submissions, req[w].task_id, req[w].participant_id)
           # {}
      /\ notifications' = notifications
      /\ LET old == FeedbackRows(feedbacks, req[w].task_id,
                                 req[w].participant_id)
             new == FeedbackRows(feedbacks', req[w].task_id,
                                 req[w].participant_id)
         IN /\ Cardinality(new) = 1
            /\ Len(feedbacks') = Len(feedbacks) + (IF old = {} THEN 1 ELSE 0)
            /\ \A i \in DOMAIN feedbacks : i \notin old =>
                 feedbacks'[i] = feedbacks[i]
            /\ \A i \in new :
                 /\ feedbacks'[i].feedback_text = req[w].feedback_text
                 /\ feedbacks'[i].rating = req[w].rating

\* Every 'feedback' notification follows the write of its request.
C5_NotifyStep ==
  (/\ Len(notifications') > Len(notifications)
   /\ notifications'[Len(notifications')].notification_type = "feedback") =>
    \E w \in Workers :
      /\ req[w].pc = "feedback_notify"
      /\ FeedbackRows(feedbacks, req[w].task_id, req[w].participant_id) # {}
      /\ resp'[w].outcome = "feedback_saved"

\* C5: add_task_feedback by the task's organizer answers not found and
\* changes nothing when the pair has no Submission; with one it upserts, so
\* the pair has one Feedback row with the latest text and rating, and every
\* Feedback row has a Submission of its pair.
C5_FeedbackNeedsSubmission ==
  /\ []C5_OneRowOnSubmission
  /\ [][C5_NotFoundStep /\ C5_FoundStep /\ C5_WriteStep /\ C5_NotifyStep]_vars

\* Feedback written twice for a pair that has one row, and a call for a pair
\* without a Submission answered not found.
C5_Witness ==
  /\ resp[1].outcome = "not_found"
  /\ \E t \in DOMAIN tasks, p, q \in DOMAIN users :
       /\ Cardinality(FeedbackNotifications(notifications, t, p)) = 2
       /\ Cardinality(FeedbackRows(feedbacks, t, p)) = 1
       /\ users[q].role = "participant"
       /\ SubmissionRows(submissions, t, q) = {}

\* C6: every stored Feedback row has its rating in 1..5.
C6_RatingInRange ==
  \A i \in DOMAIN feedbacks : feedbacks[i].rating \in 1 .. 5

\* The request is turned away: a redirect to the home page, nothing written.
TurnedAway(w) ==
  /\ resp'[w].outcome = "redirect_home"
  /\ req'[w] = Idle
  /\ UNCHANGED db

IsEnrolledParticipant(u, task_id) ==
  /\ users[u].role = "participant"
  /\ RowsOfPair(enrollments, u, tasks[task_id].program_id) # {}

\* A logged-in principal who is not the program's (the task's) owner is turned
\* away from create_task, enroll_participant, grade_participants and
\* add_task_feedback; one who is no enrolled participant, from submit_task.
C7_GateStep ==
  \A w \in Workers, u \in DOMAIN users :
    /\ (~IsOwner(u, 1) /\ 1 \in DOMAIN programs
          /\ create_task(w, u, 1, "POST", "hw", "")) => TurnedAway(w)
    /\ (~IsOwner(u, 1) /\ 1 \in DOMAIN programs
          /\ enroll_participant(w, u, 1, "3")) => TurnedAway(w)
    /\ (~IsTaskOwner(u, 1) /\ 1 \in DOMAIN tasks
          /\ grade_participants(w, u, 1, "POST",
                                [p \in ParticipantIds |-> Some("5")]))
         => TurnedAway(w)
    /\ (~IsTaskOwner(u, 1) /\ 1 \in DOMAIN tasks
          /\ add_task_feedback(w, u, 1, 3, "POST", "a", "4")) => TurnedAway(w)
    /\ (1 \in DOMAIN tasks /\ ~IsEnrolledParticipant(u, 1)
          /\ submit_task(w, u, 1, "a", None)) => TurnedAway(w)

\* Every stored row was written for a principal who passes the check.
C7_RowsOfAuthorized ==
  /\ \A i \in DOMAIN tasks :
       IsOwner(tasks[i].organizer_id, tasks[i].program_id)
  /\ \A i \in DOMAIN grades :
       IsTaskOwner(grades[i].organizer_id, grades[i].task_id)
  /\ \A i \in DOMAIN feedbacks :
       IsTaskOwner(feedbacks[i].organizer_id, feedbacks[i].task_id)
  /\ \A i \in DOMAIN submissions :
       IsEnrolledParticipant(submissions[i].participant_id,
                             submissions[i].task_id)

\* C7: a mutating operation called by a principal who fails the role or
\* ownership check changes no stored row and ends in a redirect.
C7_UnauthorizedChangesNothing ==
  /\ []C7_RowsOfAuthorized
  /\ [][C7_GateStep]_vars

\* A request turned away from a class that has a task, an enrolment, a
\* submission, a grade and a feedback.
C7_Witness ==
  /\ resp[1].outcome = "redirect_home"
  /\ tasks # <<>> /\ enrollments # <<>> /\ submissions # <<>>
  /\ grades # <<>> /\ feedbacks # <<>>

NotificationIdsOf(table, u) == { i \in DOMAIN table : table[i].user_id = u }

\* The list a view has fetched holds every notification of the user once,
\* newest first.
C8_ListsAll ==
  \A w \in Workers :
    req[w].pc = "view_mark" =>
      LET list == req[w].notifications
      IN /\ SeqRange(list) = NotificationIdsOf(notifications, req[w].user)
         /\ Len(list) = Cardinality(SeqRange(list))
         /\ \A i \in 1 .. Len(list) - 1 :
              notifications[list[i]].created_at
                >= notifications[list[i + 1]].created_at

\* The view returns the list and marks the user's notifications read, and no
\* other change.
C8_MarkStep ==
  \A w \in Workers :
    (req[w].pc = "view_mark" /\ req'[w] # req[w]) =>
      /\ resp'[w].outcome = "notifications_page"
      /\ resp'[w].body.notifications = req[w].notifications
      /\ DOMAIN notifications' = DOMAIN notifications
      /\ \A i \in DOMAIN notifications :
           notifications'[i] =
             IF notifications[i].user_id = req[w].user
               THEN [notifications[i] EXCEPT !.is_read = TRUE]
               ELSE notifications[i]

\* The count that follows a view of the same user is 0; a count is the number
\* of the user's unread notifications and changes nothing.
C8_CountStep ==
  \A w \in Workers :
    (resp'[w] # resp[w] /\ resp'[w].outcome = "unread_count") =>
      /\ notifications' = notifications
      /\ resp'[w].body.unread_count =
           Cardinality({ i \in NotificationIdsOf(notifications,
                                                 resp'[w].body.user) :
                           ~notifications[i].is_read })
      /\ (resp[w].outcome = "notifications_page"
            /\ resp[w].body.user = resp'[w].body.user)
           => resp'[w].body.unread_count = 0

\* C8: view_notifications returns all the user's notifications newest first
\* and marks them read, so that the unread count that follows is 0; other
\* users' notifications keep their is_read.
C8_ViewMarksRead ==
  /\ []C8_ListsAll
  /\ [][C8_MarkStep /\ C8_CountStep]_vars

\* A count of 0 after a view that returned two notifications of different
\* times, while another user's notification is still unread.
C8_Witness ==
  /\ resp[1].outcome = "unread_count"
  /\ resp[1].body.unread_count = 0
  /\ \E i, j \in NotificationIdsOf(notifications, resp[1].body.user) :
       /\ notifications[i].created_at < notifications[j].created_at
       /\ notifications[i].is_read /\ notifications[j].is_read
  /\ \E k \in DOMAIN notifications :
       notifications[k].user_id # resp[1].body.user /\ ~notifications[k].is_read

UsersNamed(table, username) ==
  { i \in DOMAIN table : table[i].username = username }

UsersAt(table, email) == { i \in DOMAIN table : table[i].email = email }

\* No two users share a username or an email.
C11_UniqueUsers ==
  \A i, j \in DOMAIN users :
    i # j => /\ users[i].username # users[j].username
             /\ users[i].email # users[j].email

\* A register call whose username or email is taken ends with no user added
\* and nothing changed, whichever of its steps finds the row.
C11_TakenStep ==
  \A w \in Clients :
    /\ \A n \in Usernames, e \in Emails :
         ((UsersNamed(users, n) # {} \/ UsersAt(users, e) # {})
            /\ register(w, "POST", n, e, "123456", "Ann", "Lee", "participant"))
           => UNCHANGED db
    /\ (req[w].pc \in {"register_email", "register_commit"}
          /\ req'[w] # req[w]
          /\ (UsersNamed(users, req[w].username) # {}
                \/ UsersAt(users, req[w].email) # {}))
         => (req'[w] = Idle /\ UNCHANGED db)

\* A step that changes the users adds one user, whose username and email
\* were free, and changes nothing else.
C11_AddsFresh ==
  users' # users =>
    /\ Len(users') = Len(users) + 1
    /\ UsersNamed(users, users'[Len(users')].username) = {}
    /\ UsersAt(users, users'[Len(users')].email) = {}
    /\ UNCHANGED <<programs, enrollments, tasks, submissions, grades,
                   feedbacks, notifications>>

\* A stored user stays as it was created: no step changes or removes a row.
C11_RoleKept ==
  \A i \in DOMAIN users :
    i \in DOMAIN users' /\ users'[i].role = users[i].role

\* C11: usernames and emails are unique among the users, a register whose
\* username or email exists creates no user and changes nothing, and a
\* user's role never changes.
C11_RegisterUnique ==
  /\ []C11_UniqueUsers
  /\ [][C11_TakenStep /\ C11_AddsFresh /\ C11_RoleKept]_vars

\* Two registrations have passed both lookups with the same username; one has
\* been stored and the other has been refused.
C11_Witness ==
  /\ Len(users) = Len(SeedUsers) + 1
  /\ \E w, v \in Clients :
       /\ resp[w].outcome = "redirect_login"
       /\ resp[v].outcome = "server_error"

\* The view of user u that is about to mark and answer.
Viewing(w, u) == req[w].pc = "view_mark" /\ req[w].user = u /\ req'[w] = Idle

\* No notification is removed; one that is added is unread; a stored one
\* keeps its columns, but for is_read, which goes from FALSE to TRUE and only
\* in a view of its user.
C12_RowStep ==
  /\ Len(notifications') >= Len(notifications)
  /\ \A i \in DOMAIN notifications' \ DOMAIN notifications :
       ~notifications'[i].is_read
  /\ \A i \in DOMAIN notifications :
       \/ notifications'[i] = notifications[i]
       \/ /\ notifications'[i] = [notifications[i] EXCEPT !.is_read = TRUE]
          /\ ~notifications[i].is_read
          /\ \E w \in DOMAIN req : Viewing(w, notifications[i].user_id)

\* The unread count and create_notification leave the stored notifications
\* as they are.
C12_ReadOnlySteps ==
  /\ \A w \in DOMAIN resp :
       (resp'[w] # resp[w] /\ resp'[w].outcome = "unread_count")
         => notifications' = notifications
  /\ Len(notifications') > Len(notifications)
       => SubSeq(notifications', 1, Len(notifications)) = notifications

\* C12: notifications are append-only with a one-way read flag: created
\* unread, read only by view_notifications of their user, never changed by
\* the unread count or by create_notification, never deleted or altered.
C12_AppendOnlyReadOnce ==
  [][C12_RowStep /\ C12_ReadOnlySteps]_vars

\* A count answered while one notification has been read and a later one is
\* still unread.
C12_Witness ==
  /\ resp[1].outcome = "unread_count"
  /\ \E i, j \in DOMAIN notifications :
       i < j /\ notifications[i].is_read /\ ~notifications[j].is_read

\* C13: also with two requests in flight at once, every (program,
\* participant) pair has at most one Enrollment and every (task, participant)
\* pair at most one Grade, one Submission and one Feedback.
C13_OneRowPerPair ==
  /\ \A p \in DOMAIN users, g \in DOMAIN programs :
       Cardinality(RowsOfPair(enrollments, p, g)) <= 1
  /\ \A t \in DOMAIN tasks, p \in DOMAIN users :
       /\ Cardinality(GradeRows(grades, t, p)) <= 1
       /\ Cardinality(SubmissionRows(submissions, t, p)) <= 1
       /\ Cardinality(FeedbackRows(feedbacks, t, p)) <= 1

\* C14: every notification that a view marks read is in the list the same
\* view returns.
C14_ReadIsShown ==
  [][\A w \in Clients :
       (req[w].pc = "view_mark" /\ req'[w] = Idle) =>
         \A i \in DOMAIN notifications :
           (~notifications[i].is_read /\ notifications'[i].is_read)
             => i \in SeqRange(resp'[w].body.notifications)]_vars
====
